---- MODULE Spec2Model ----
(***************************************************************************)
(* Model of src/src/generateAppConfig.ts: the hardhat action that reads    *)
(* the LayerZero wiring of a user application on every declared network    *)
(* and writes it as one JSON mesh document.                                *)
(*                                                                         *)
(* The action is one JavaScript job queue.  Each action of the model is    *)
(* one run-to-completion block: the synchronous prefix of a call, or the   *)
(* continuation that runs when one awaited RPC read settles.  The reduce   *)
(* of generateAppConfig is synchronous; it is split into one step per      *)
(* network and nothing else runs until its cursor has passed the list.     *)
(***************************************************************************)
EXTENDS Integers, Sequences, FiniteSets, TLC

\* ------------------------------------------------------------------ bounds

\* Number of attempts of one backOff(...) call (the library's numOfAttempts).
NumOfAttempts == 2
\* Largest library version drawn for uaConfigLookup / the endpoint defaults.
MaxVersion == 2
\* Largest unsigned value drawn for an integer field of an application config.
MaxUint == 1
\* Longest byte sequence a connectivity probe returns.
MaxBytes == 1

\* ------------------------------------------------------------- value sets

NetworkNames == {"eth", "bsc"}

\* ethers.constants.AddressZero
AddressZero == "0x0000000000000000000000000000000000000000"

NoValue == "undefined"

\* A string as the sequence of its characters.
StrEmpty == <<>>
StrCfgJson == <<"c", "f", "g", ".", "j", "s", "o", "n">>
StrAbsCfgJson == <<"/", "c", "f", "g", ".", "j", "s", "o", "n">>
StrCfgTxt == <<"c", "f", "g", ".", "t", "x", "t">>
StrDirCfgJson == <<"o", "u", "t", "/", "c", ".", "j", "s", "o", "n">>
StrAbsTxt == <<"/", "c", ".", "t", "x", "t">>
StrDotJson == <<".", "j", "s", "o", "n">>

FileNames ==
    {StrEmpty, StrCfgJson, StrAbsCfgJson, StrCfgTxt, StrAbsTxt}

\* String.prototype.endsWith
endsWith(s, suffix) ==
    /\ Len(suffix) <= Len(s)
    /\ SubSeq(s, Len(s) - Len(suffix) + 1, Len(s)) = suffix

\* String.prototype.startsWith
startsWith(s, prefix) ==
    /\ Len(prefix) <= Len(s)
    /\ SubSeq(s, 1, Len(prefix)) = prefix

\* checkOutputFileName without the test for an absolute path.
checkOutputFileNameNoRelativeTest(fileName) ==
    IF fileName = StrEmpty
    THEN "Output file name is required."
    ELSE IF ~endsWith(fileName, StrDotJson)
    THEN "Output file name must end with .json."
    ELSE "ok"

\* checkOutputFileName: the message of the Error it throws, or "ok".
checkOutputFileName(fileName) ==
    IF fileName = StrEmpty
    THEN "Output file name is required."
    ELSE IF ~endsWith(fileName, StrDotJson)
    THEN "Output file name must end with .json."
    ELSE IF startsWith(fileName, <<"/">>)
    THEN "Output file name must be relative."
    ELSE "ok"

\* ethers decodes a `bytes` return value to its hex string: "0x" and two
\* digits per byte.
RECURSIVE hexlify(_)
hexlify(bytes) ==
    IF bytes = <<>>
    THEN <<"0", "x">>
    ELSE hexlify(SubSeq(bytes, 1, Len(bytes) - 1)) \o <<"a", "b">>

\* A byte sequence of n bytes.
Bytes(n) == [i \in 1..n |-> 171]

\* BigNumber.toNumber() of a uint64 the ABI decodes to a BigNumber.
BigNumber(n) == [_isBigNumber |-> TRUE, value |-> n]
toNumber(b) == b.value

\* getLayerZeroChainId: the protocol's numeric id of a network.
getLayerZeroChainId(network) ==
    CASE network = "eth" -> 101
      [] network = "bsc" -> 102

\* getRemoteConfig with the relayer chosen by the test of the oracle.
MergeRemoteConfigOracleTest(remoteNetwork, appConfig, defaultAppConfig) ==
    [ remoteChain |-> remoteNetwork,
      inboundProofLibraryVersion |->
          IF appConfig.inboundProofLibraryVersion > 0
          THEN appConfig.inboundProofLibraryVersion
          ELSE defaultAppConfig.inboundProofLibraryVersion,
      inboundBlockConfirmations |->
          IF appConfig.inboundBlockConfirmations > 0
          THEN appConfig.inboundBlockConfirmations
          ELSE defaultAppConfig.inboundBlockConfirmations.value,
      relayer |->
          IF appConfig.oracle # AddressZero
          THEN appConfig.relayer
          ELSE defaultAppConfig.relayer,
      outboundProofType |->
          IF appConfig.outboundProofType > 0
          THEN appConfig.outboundProofType
          ELSE defaultAppConfig.outboundProofType,
      outboundBlockConfirmations |->
          IF appConfig.outboundBlockConfirmations > 0
          THEN appConfig.outboundBlockConfirmations
          ELSE defaultAppConfig.outboundBlockConfirmations.value,
      oracle |->
          IF appConfig.oracle # AddressZero
          THEN appConfig.oracle
          ELSE defaultAppConfig.oracle ]

\* getRemoteConfig, lines 147-155: the merge of the application config with
\* the send library's default config.
MergeRemoteConfig(remoteNetwork, appConfig, defaultAppConfig) ==
    [ remoteChain |-> remoteNetwork,
      inboundProofLibraryVersion |->
          IF appConfig.inboundProofLibraryVersion > 0
          THEN appConfig.inboundProofLibraryVersion
          ELSE defaultAppConfig.inboundProofLibraryVersion,
      inboundBlockConfirmations |->
          IF appConfig.inboundBlockConfirmations > 0
          THEN appConfig.inboundBlockConfirmations
          ELSE toNumber(defaultAppConfig.inboundBlockConfirmations),
      relayer |->
          IF appConfig.relayer # AddressZero
          THEN appConfig.relayer
          ELSE defaultAppConfig.relayer,
      outboundProofType |->
          IF appConfig.outboundProofType > 0
          THEN appConfig.outboundProofType
          ELSE defaultAppConfig.outboundProofType,
      outboundBlockConfirmations |->
          IF appConfig.outboundBlockConfirmations > 0
          THEN appConfig.outboundBlockConfirmations
          ELSE toNumber(defaultAppConfig.outboundBlockConfirmations),
      oracle |->
          IF appConfig.oracle # AddressZero
          THEN appConfig.oracle
          ELSE defaultAppConfig.oracle ]

\* ------------------------------------------------------------------ state

VARIABLES
    pc,                  \* position of generateAppConfigAction
    fileName,            \* taskArgs.outputFileName
    name,                \* taskArgs.name, or NoValue
    inputNetworks,       \* taskArgs.networks, split into its key:value entries
    env,                 \* what the provider/endpoint/deployment lookups know
    chain,               \* the on-chain values the reads return
    networks,            \* Object.keys(configs), in insertion order
    configs,             \* configs[network].address
    cursor,              \* index of the next element the reduce visits
    tpc,                 \* position of each network's reduce callback
    ver,                 \* the locals of each network's getVersions call
    probe,               \* the isConnected call of each (local, remote)
    fetch,               \* the getRemoteConfig call of each (local, remote)
    acc,                 \* the value each reduce callback's promise resolved to
    mesh,                \* defaultConfigMesh in generateAppConfigAction
    file,                \* the content of the output file, or NoValue
    writes,              \* number of completed writeFile calls
    readIssued,          \* an on-chain read has been issued
    flaky,               \* the read call that has failed transiently, or <<>>
    errors,              \* the errors thrown: [network, step, attempts]
    unhandledRejections  \* what the runtime does with a rejection nobody handles

vars ==
    << pc, fileName, name, inputNetworks, env, chain, networks, configs, cursor,
       tpc, ver, probe, fetch, acc, mesh, file, writes, readIssued, flaky,
       errors, unhandledRejections >>

inputVars == << fileName, name, inputNetworks, env, chain >>

\* ------------------------------------------------- external collaborators

\* getProvider(hre, network): throws for a network hardhat does not know.
getProviderThrows(network) == network \notin env.providers

\* getEndpointAddress(network): throws when no endpoint is recorded.
getEndpointAddressThrows(network) == network \notin env.endpoints

\* getDeploymentAddress(network, name): throws when nothing is deployed.
getDeploymentAddressThrows(network) == network \notin env.deployments

getDeploymentAddress(network) ==
    CASE network = "eth" -> "0xDEPLOYED_eth"
      [] network = "bsc" -> "0xDEPLOYED_bsc"

\* --------------------------------------------------------- getContractConfigs

Entry(key, value) == [key |-> key, value |-> value]

\* { ...obj, [key]: value } on an object kept as the sequence of its entries
\* in insertion order.
Spread(obj, key, value) ==
    IF \E i \in 1..Len(obj) : obj[i].key = key
    THEN [i \in 1..Len(obj) |->
             IF obj[i].key = key THEN Entry(key, value) ELSE obj[i]]
    ELSE Append(obj, Entry(key, value))

\* getContractConfigs, line 300: `value ? value : getDeploymentAddress(key, name!)`.
ConfigAddress(entry) ==
    IF entry.value # "" THEN entry.value ELSE getDeploymentAddress(entry.key)

\* getContractConfigs: the reduce over the first k entries of the input.
RECURSIVE getContractConfigs(_, _)
getContractConfigs(input, k) ==
    IF k = 0
    THEN <<>>
    ELSE Spread(getContractConfigs(input, k - 1), input[k].key,
                [address |-> ConfigAddress(input[k])])

\* The entries of the input whose address lookup throws.
FailingEntries(input) ==
    {i \in 1..Len(input) :
        input[i].value = "" /\ getDeploymentAddressThrows(input[i].key)}

Min(S) == CHOOSE x \in S : \A y \in S : x <= y

ObjectKeys(obj) == [i \in 1..Len(obj) |-> obj[i].key]

Lookup(obj, key) == (CHOOSE i \in 1..Len(obj) : obj[i].key = key)

\* ---------------------------------------------------------------- helpers

Declared == {networks[i] : i \in 1..Len(networks)}

Index(n) == CHOOSE i \in 1..Len(networks) : networks[i] = n

IsLast(n) == Index(n) = Len(networks)

Succ(n) == networks[Index(n) + 1]

Pred(n) == networks[Index(n) - 1]

\* The reduce has returned and the action awaits its promise.
Assembling == IF pc = "generateAppConfig" THEN cursor > Len(networks) ELSE FALSE

VersionReads ==
    { "uaConfigLookup", "defaultSendLibrary", "defaultSendVersion",
      "defaultReceiveLibraryAddress", "defaultReceiveVersion" }

\* A read call: the local network, the remote network and the read.
Call(l, r, read) == <<l, r, read>>

\* The environment: the RPC providers are flaky for at most one read call of
\* a run, which may fail on any of its attempts.
MayFail(call) ==
    IF flaky = <<>> THEN TRUE ELSE flaky = call

\* What the runtime may do with a rejected promise: when the rejection has
\* no handler the first time, the process either terminates (Node's default
\* since v15) or only warns, and it does the same for the rest of the run.
Modes(handlerless) ==
    IF handlerless /\ unhandledRejections = "unknown"
    THEN {"throw", "warn"}
    ELSE {unhandledRejections}

\* A rejection of the last callback that is caught and followed by the write.
SettleRejectedThenWrite(n) ==
    IF IsLast(n)
    THEN pc' = "writeFile" /\ UNCHANGED unhandledRejections
    ELSE \E m \in Modes(tpc[Succ(n)] # "awaitAcc") :
            /\ unhandledRejections' = m
            /\ pc' = IF m = "throw" THEN "crashed" ELSE pc

\* A reduce callback's promise rejects.  The last callback's promise is the
\* one generateAppConfigAction awaits; any other is handled only once its
\* successor has reached `await acc`.
SettleRejected(n) ==
    IF IsLast(n)
    THEN pc' = "error" /\ UNCHANGED unhandledRejections
    ELSE \E m \in Modes(tpc[Succ(n)] # "awaitAcc") :
            /\ unhandledRejections' = m
            /\ pc' = IF m = "throw" THEN "crashed" ELSE pc

RejectTask(n, step, attempts) ==
    /\ tpc' = [tpc EXCEPT ![n] = "rejected"]
    /\ errors' = errors \cup
           {[network |-> n, step |-> step, attempts |-> attempts]}
    /\ SettleRejected(n)

\* ------------------------------------------------ generateAppConfigAction

\* Line 332: configs = getContractConfigs(inputNetworks, name).
GetContractConfigs ==
    /\ pc = "getContractConfigs"
    /\ IF FailingEntries(inputNetworks) # {}
       THEN /\ pc' = "error"
            /\ errors' = errors \cup
                   {[ network |-> inputNetworks[Min(FailingEntries(inputNetworks))].key,
                      step |-> "getDeploymentAddress",
                      attempts |-> 0 ]}
            /\ UNCHANGED << networks, configs >>
       ELSE /\ pc' = "checkOutputFileName"
            /\ configs' = getContractConfigs(inputNetworks, Len(inputNetworks))
            /\ networks' = ObjectKeys(configs')
            /\ UNCHANGED errors
    /\ UNCHANGED << inputVars, cursor, tpc, ver, probe, fetch, acc, mesh, file,
                    writes, readIssued, flaky, unhandledRejections >>

\* Line 333: checkOutputFileName(outputFileName).
CheckOutputFileName ==
    /\ pc = "checkOutputFileName"
    /\ IF checkOutputFileName(fileName) = "ok"
       THEN pc' = "generateAppConfig" /\ UNCHANGED errors
       ELSE /\ pc' = "error"
            /\ errors' = errors \cup
                   {[ network |-> NoValue,
                      step |-> checkOutputFileName(fileName),
                      attempts |-> 0 ]}
    /\ UNCHANGED << inputVars, networks, configs, cursor, tpc, ver, probe,
                    fetch, acc, mesh, file, writes, readIssued, flaky,
                    unhandledRejections >>

\* ------------------------------------------------------- generateAppConfig

\* Lines 270-275: the synchronous prefix of the reduce callback of the
\* network under the cursor, up to the first await of getVersions.  A throw of
\* getProvider or getEndpointAddress rejects the callback's promise.  When the
\* reduce returns, the action awaits the last promise; a rejected promise of
\* an earlier network has no handler yet.
ReduceStep ==
    /\ pc = "generateAppConfig"
    /\ cursor <= Len(networks)
    /\ LET n == networks[cursor]
           thrown ==
               IF getProviderThrows(n) THEN "getProvider"
               ELSE IF getEndpointAddressThrows(n) THEN "getEndpointAddress"
               ELSE "none"
           tpc1 == [tpc EXCEPT ![n] =
                       IF thrown = "none" THEN "uaConfigLookup" ELSE "rejected"]
           done == cursor = Len(networks)
           unhandled ==
               \E i \in 1..(Len(networks) - 1) : tpc1[networks[i]] = "rejected"
       IN  /\ tpc' = tpc1
           /\ cursor' = cursor + 1
           /\ readIssued' = (readIssued \/ thrown = "none")
           /\ errors' =
                  IF thrown = "none" THEN errors
                  ELSE errors \cup {[network |-> n, step |-> thrown, attempts |-> 0]}
           /\ \E m \in Modes(done /\ unhandled /\ thrown = "none") :
                 /\ unhandledRejections' = m
                 /\ pc' = IF done /\ thrown # "none" THEN "error"
                          ELSE IF m = "throw" THEN "crashed"
                          ELSE pc
    /\ UNCHANGED << inputVars, networks, configs, ver, probe, fetch, acc, mesh,
                    file, writes, flaky >>

\* Lines 177-179, reached from line 276: getRemoteConfigs.  The predicate
\* given to filter is async: it returns a promise for every remote, filter
\* keeps every element, and the isConnected calls run on unobserved.
\* Promise.all of the kept names then starts one getRemoteConfig per name.
StartRemoteConfigs(n) ==
    /\ probe' = [probe EXCEPT ![n] =
           [r \in NetworkNames |->
               IF r \in Declared
               THEN [st |-> "pending", attempts |-> 0]
               ELSE probe[n][r]]]
    /\ fetch' = [fetch EXCEPT ![n] =
           [r \in NetworkNames |->
               IF r \in Declared
               THEN [fetch[n][r] EXCEPT !.st = "appConfig", !.attempts = 0]
               ELSE fetch[n][r]]]

\* The receive half of getVersions deciding by the send version.
ResolveReceiveBySendVersion(n, v) ==
    IF v.uaSendVersion = 0
    THEN /\ ver' = [ver EXCEPT ![n] = v]
         /\ tpc' = [tpc EXCEPT ![n] = "defaultReceiveLibraryAddress"]
         /\ UNCHANGED << probe, fetch >>
    ELSE /\ ver' = [ver EXCEPT ![n] =
                [v EXCEPT !.receiveLibraryAddress = v.uaReceiveLibraryAddress,
                          !.receiveVersion = v.uaReceiveVersion]]
         /\ tpc' = [tpc EXCEPT ![n] = "getRemoteConfigs"]
         /\ StartRemoteConfigs(n)

\* Lines 238-253: the receive half of getVersions after the send half has
\* resolved to v; getVersions returns when no default has to be read.
ResolveReceive(n, v) ==
    IF v.uaReceiveVersion = 0
    THEN /\ ver' = [ver EXCEPT ![n] = v]
         /\ tpc' = [tpc EXCEPT ![n] = "defaultReceiveLibraryAddress"]
         /\ UNCHANGED << probe, fetch >>
    ELSE /\ ver' = [ver EXCEPT ![n] =
                [v EXCEPT !.receiveLibraryAddress = v.uaReceiveLibraryAddress,
                          !.receiveVersion = v.uaReceiveVersion]]
         /\ tpc' = [tpc EXCEPT ![n] = "getRemoteConfigs"]
         /\ StartRemoteConfigs(n)

\* Lines 221-235: endpoint.uaConfigLookup(contractAddress) returns.
UaConfigLookupReturns(n) ==
    /\ Assembling
    /\ tpc[n] = "uaConfigLookup"
    /\ LET ua == chain.ua[n]
           v == [ver[n] EXCEPT !.uaSendVersion = ua.sendVersion,
                               !.uaReceiveVersion = ua.receiveVersion,
                               !.uaSendLibraryAddress = ua.sendLibrary,
                               !.uaReceiveLibraryAddress = ua.receiveLibraryAddress]
       IN  IF v.uaSendVersion = 0
           THEN /\ ver' = [ver EXCEPT ![n] = v]
                /\ tpc' = [tpc EXCEPT ![n] = "defaultSendLibrary"]
                /\ UNCHANGED << probe, fetch >>
           ELSE ResolveReceive(n,
                    [v EXCEPT !.sendLibraryAddress = v.uaSendLibraryAddress,
                              !.sendVersion = v.uaSendVersion])
    /\ UNCHANGED << inputVars, pc, networks, configs, cursor, acc, mesh, file,
                    writes, readIssued, flaky, errors, unhandledRejections >>

\* Line 230: endpoint.defaultSendLibrary() returns.
DefaultSendLibraryReturns(n) ==
    /\ Assembling
    /\ tpc[n] = "defaultSendLibrary"
    /\ ver' = [ver EXCEPT ![n].sendLibraryAddress =
                   chain.defaults[n].defaultSendLibrary]
    /\ tpc' = [tpc EXCEPT ![n] = "defaultSendVersion"]
    /\ UNCHANGED << inputVars, pc, networks, configs, cursor, probe, fetch, acc,
                    mesh, file, writes, readIssued, flaky, errors,
                    unhandledRejections >>

\* Line 231: endpoint.defaultSendVersion() returns.
DefaultSendVersionReturns(n) ==
    /\ Assembling
    /\ tpc[n] = "defaultSendVersion"
    /\ ResolveReceive(n,
           [ver[n] EXCEPT !.sendVersion = chain.defaults[n].defaultSendVersion])
    /\ UNCHANGED << inputVars, pc, networks, configs, cursor, acc, mesh, file,
                    writes, readIssued, flaky, errors, unhandledRejections >>

\* Line 240: endpoint.defaultReceiveLibraryAddress() returns.
DefaultReceiveLibraryAddressReturns(n) ==
    /\ Assembling
    /\ tpc[n] = "defaultReceiveLibraryAddress"
    /\ ver' = [ver EXCEPT ![n].receiveLibraryAddress =
                   chain.defaults[n].defaultReceiveLibraryAddress]
    /\ tpc' = [tpc EXCEPT ![n] = "defaultReceiveVersion"]
    /\ UNCHANGED << inputVars, pc, networks, configs, cursor, probe, fetch, acc,
                    mesh, file, writes, readIssued, flaky, errors,
                    unhandledRejections >>

\* Lines 241-253: endpoint.defaultReceiveVersion() returns and getVersions
\* returns.
DefaultReceiveVersionReturns(n) ==
    /\ Assembling
    /\ tpc[n] = "defaultReceiveVersion"
    /\ ver' = [ver EXCEPT ![n].receiveVersion =
                   chain.defaults[n].defaultReceiveVersion]
    /\ tpc' = [tpc EXCEPT ![n] = "getRemoteConfigs"]
    /\ StartRemoteConfigs(n)
    /\ UNCHANGED << inputVars, pc, networks, configs, cursor, acc, mesh, file,
                    writes, readIssued, flaky, errors, unhandledRejections >>

\* Lines 226-241: a read of getVersions fails.  None of the five reads is
\* wrapped in backOff, so the first failure rejects getVersions.
GetVersionsReadFails(n) ==
    /\ Assembling
    /\ tpc[n] \in VersionReads
    /\ MayFail(Call(n, n, tpc[n]))
    /\ flaky' = Call(n, n, tpc[n])
    /\ RejectTask(n, tpc[n], 1)
    /\ UNCHANGED << inputVars, networks, configs, cursor, ver, probe, fetch, acc,
                    mesh, file, writes, readIssued >>

\* ------------------------------------------------------------ isConnected

\* The isConnected calls run while the action is alive.
ProbesRun == IF pc = "writeFile" THEN TRUE ELSE Assembling

\* Lines 201-202: the probe read returns; val is the decoded `bytes` value.
ProbeReturns(l, r) ==
    /\ ProbesRun
    /\ probe[l][r].st = "pending"
    /\ ~chain.probe[l][r].reverts
    /\ LET val == hexlify(chain.probe[l][r].bytes)
       IN  probe' = [probe EXCEPT ![l][r].st =
                        IF Len(val) > 0 THEN "true" ELSE "false"]
    /\ UNCHANGED << inputVars, pc, networks, configs, cursor, tpc, ver, fetch,
                    acc, mesh, file, writes, readIssued, flaky, errors,
                    unhandledRejections >>

\* Line 201: an attempt of the probe read fails, because the call reverts or
\* because of a transient fault; backOff retries until its attempts are used
\* up and then rejects.  Nothing awaits the promise of isConnected.
ProbeFails(l, r) ==
    /\ ProbesRun
    /\ probe[l][r].st = "pending"
    /\ IF chain.probe[l][r].reverts
       THEN UNCHANGED flaky
       ELSE /\ MayFail(Call(l, r, "isConnected"))
            /\ flaky' = Call(l, r, "isConnected")
    /\ LET a == probe[l][r].attempts + 1
       IN  IF a < NumOfAttempts
           THEN /\ probe' = [probe EXCEPT ![l][r].attempts = a]
                /\ UNCHANGED << pc, unhandledRejections >>
           ELSE /\ probe' = [probe EXCEPT ![l][r] =
                                [st |-> "rejected", attempts |-> a]]
                /\ \E m \in Modes(TRUE) :
                      /\ unhandledRejections' = m
                      /\ pc' = IF m = "throw" THEN "crashed" ELSE pc
    /\ UNCHANGED << inputVars, networks, configs, cursor, tpc, ver, fetch, acc,
                    mesh, file, writes, readIssued, errors >>

\* -------------------------------------------------------- getRemoteConfig

\* The getRemoteConfig calls of a network whose promise has settled.
Fetched(l, f) == \A r \in Declared : f[l][r].st = "done"

\* Promise.all of line 179: the results in the order of remoteNetworks.
RemoteConfigs(l) ==
    [i \in 1..Len(networks) |-> fetch[l][networks[i]].remoteConfig]

\* Line 142: getApplicationConfig returns inside backOff.
AppConfigReturns(l, r) ==
    /\ Assembling
    /\ fetch[l][r].st = "appConfig"
    /\ fetch' = [fetch EXCEPT ![l][r] =
                    [@ EXCEPT !.st = "defaultAppConfig",
                              !.attempts = 0,
                              !.appConfig = chain.app[l][r]]]
    /\ UNCHANGED << inputVars, pc, networks, configs, cursor, tpc, ver, probe,
                    acc, mesh, file, writes, readIssued, flaky, errors,
                    unhandledRejections >>

\* Lines 144-155: sendLibrary.defaultAppConfig returns inside backOff and
\* getRemoteConfig returns the merged config.  When it is the last of the
\* network's calls, Promise.all resolves and the callback goes on to
\* `await acc`.
DefaultAppConfigReturns(l, r) ==
    /\ Assembling
    /\ fetch[l][r].st = "defaultAppConfig"
    /\ LET defaultAppConfig ==
               chain.libDefault[l][ver[l].sendLibraryAddress][getLayerZeroChainId(r)]
       IN  fetch' = [fetch EXCEPT ![l][r] =
                        [@ EXCEPT !.st = "done",
                                  !.remoteConfig =
                                      MergeRemoteConfig(r, fetch[l][r].appConfig,
                                                        defaultAppConfig)]]
    /\ tpc' = IF tpc[l] = "getRemoteConfigs" /\ Fetched(l, fetch')
              THEN [tpc EXCEPT ![l] = "awaitAcc"]
              ELSE tpc
    /\ UNCHANGED << inputVars, pc, networks, configs, cursor, ver, probe, acc,
                    mesh, file, writes, readIssued, flaky, errors,
                    unhandledRejections >>

\* Lines 142 and 144: an attempt of one of the two reads fails; backOff
\* retries, and rejects once its attempts are used up.  The first rejection
\* rejects Promise.all and with it the network's callback; the sibling calls
\* run on.
RemoteConfigReadFails(l, r) ==
    /\ Assembling
    /\ fetch[l][r].st \in {"appConfig", "defaultAppConfig"}
    /\ MayFail(Call(l, r, fetch[l][r].st))
    /\ flaky' = Call(l, r, fetch[l][r].st)
    /\ LET a == fetch[l][r].attempts + 1
       IN  IF a < NumOfAttempts
           THEN /\ fetch' = [fetch EXCEPT ![l][r].attempts = a]
                /\ UNCHANGED << pc, tpc, errors, unhandledRejections >>
           ELSE /\ fetch' = [fetch EXCEPT ![l][r].st = "rejected",
                                          ![l][r].attempts = a]
                /\ IF tpc[l] = "getRemoteConfigs"
                   THEN RejectTask(l, fetch[l][r].st, a)
                   ELSE UNCHANGED << pc, tpc, errors, unhandledRejections >>
    /\ UNCHANGED << inputVars, networks, configs, cursor, ver, probe, acc, mesh,
                    file, writes, readIssued >>

\* ------------------------------------------------------- mesh accumulation

\* Lines 279-285: the ChainPathConfig of a network.
ChainPathConfig(n) ==
    [ name |-> name,
      sendVersion |-> ver[n].sendVersion,
      receiveVersion |-> ver[n].receiveVersion,
      address |-> configs[Lookup(configs, n)].value.address,
      remoteConfigs |-> RemoteConfigs(n) ]

\* The accumulator a callback awaits: Promise.resolve({}) for the first
\* network, the promise of the previous callback for the others.
AccSettled(n) ==
    IF Index(n) = 1 THEN TRUE ELSE tpc[Pred(n)] \in {"resolved", "rejected"}

AccRejected(n) == IF Index(n) = 1 THEN FALSE ELSE tpc[Pred(n)] = "rejected"

\* The accumulator without the spread of the awaited mesh.
AccValueEmpty(n) == <<>>

AccValue(n) == IF Index(n) = 1 THEN <<>> ELSE acc[Pred(n)]

\* The reduce callback adding its entry to one shared mesh as soon as its own
\* reads are done, in the order of completion.
AwaitAccInArrivalOrder(n) ==
    /\ Assembling
    /\ tpc[n] = "awaitAcc"
    /\ LET resolved == {m \in Declared : tpc[m] = "resolved"}
           latest ==
               IF resolved = {}
               THEN <<>>
               ELSE acc[CHOOSE m \in resolved :
                           \A k \in resolved : Len(acc[k]) <= Len(acc[m])]
           all == \A m \in Declared \ {n} : tpc[m] = "resolved"
       IN  /\ tpc' = [tpc EXCEPT ![n] = "resolved"]
           /\ acc' = [acc EXCEPT ![n] = Spread(latest, n, ChainPathConfig(n))]
           /\ mesh' = IF all THEN acc'[n] ELSE mesh
           /\ pc' = IF all THEN "writeFile" ELSE pc
    /\ UNCHANGED << inputVars, networks, configs, cursor, ver, probe, fetch,
                    file, writes, readIssued, flaky, errors,
                    unhandledRejections >>

\* Lines 277-286: `await acc` settles.  The callback returns the awaited
\* mesh with its own entry added, or rethrows the rejection it awaited.  The
\* promise of the last callback is the one generateAppConfigAction awaits.
AwaitAcc(n) ==
    /\ Assembling
    /\ tpc[n] = "awaitAcc"
    /\ AccSettled(n)
    /\ IF AccRejected(n)
       THEN /\ tpc' = [tpc EXCEPT ![n] = "rejected"]
            /\ SettleRejected(n)
            /\ UNCHANGED << acc, mesh >>
       ELSE /\ tpc' = [tpc EXCEPT ![n] = "resolved"]
            /\ acc' = [acc EXCEPT ![n] = Spread(AccValue(n), n, ChainPathConfig(n))]
            /\ mesh' = IF IsLast(n) THEN acc'[n] ELSE mesh
            /\ pc' = IF IsLast(n) THEN "writeFile" ELSE pc
            /\ UNCHANGED unhandledRejections
    /\ UNCHANGED << inputVars, networks, configs, cursor, ver, probe, fetch,
                    file, writes, readIssued, flaky, errors >>

\* Line 335: writeFile(outputFileName, JSON.stringify(defaultConfigMesh)).
WriteFile ==
    /\ pc = "writeFile"
    /\ file' = mesh
    /\ writes' = writes + 1
    /\ pc' = "done"
    /\ UNCHANGED << inputVars, networks, configs, cursor, tpc, ver, probe,
                    fetch, acc, mesh, readIssued, flaky, errors,
                    unhandledRejections >>

\* ------------------------------------------------------------- the inputs

LibAddresses == {"0xLibV1", "0xLibV2"}

\* What endpoint.uaConfigLookup(address) can return.
UaConfigs ==
    [ sendVersion : 0..MaxVersion,
      receiveVersion : 0..MaxVersion,
      sendLibrary : LibAddresses,
      receiveLibraryAddress : LibAddresses ]

\* The endpoint's protocol-wide defaults.
EndpointDefaults ==
    [ defaultSendLibrary : LibAddresses,
      defaultSendVersion : 1..MaxVersion,
      defaultReceiveLibraryAddress : LibAddresses,
      defaultReceiveVersion : 1..MaxVersion ]

\* What getApplicationConfig can return for one path.
AppConfigs ==
    [ inboundProofLibraryVersion : 0..MaxUint,
      inboundBlockConfirmations : 0..MaxUint,
      relayer : {AddressZero, "0xAppRelayer"},
      outboundProofType : 0..MaxUint,
      outboundBlockConfirmations : 0..MaxUint,
      oracle : {AddressZero, "0xAppOracle"} ]

UnsetAppConfig ==
    [ inboundProofLibraryVersion |-> 0,
      inboundBlockConfirmations |-> 0,
      relayer |-> AddressZero,
      outboundProofType |-> 0,
      outboundBlockConfirmations |-> 0,
      oracle |-> AddressZero ]

\* sendLibrary.defaultAppConfig(chainId) of the library at address lib on
\* network l: every library, and every remote, has defaults of its own.
LibDefaultAppConfig(l, lib, chainId) ==
    [ inboundProofLibraryVersion |-> IF lib = "0xLibV1" THEN 3 ELSE 4,
      inboundBlockConfirmations |->
          BigNumber(chainId - 90 + (IF l = "eth" THEN 0 ELSE 20)),
      relayer |-> IF lib = "0xLibV1" THEN "0xRelayerV1" ELSE "0xRelayerV2",
      outboundProofType |-> IF lib = "0xLibV1" THEN 5 ELSE 6,
      outboundBlockConfirmations |->
          BigNumber(chainId - 80 + (IF l = "eth" THEN 0 ELSE 20)),
      oracle |-> IF lib = "0xLibV1" THEN "0xOracleV1" ELSE "0xOracleV2" ]

LibDefaults ==
    [l \in NetworkNames |->
        [lib \in LibAddresses |->
            [chainId \in {getLayerZeroChainId(r) : r \in NetworkNames} |->
                LibDefaultAppConfig(l, lib, chainId)]]]

\* A deployment on two networks: eth sends with the endpoint's default
\* library and receives with its own version 2; bsc does the opposite.
MeshUa ==
    [n \in NetworkNames |->
        IF n = "eth"
        THEN [ sendVersion |-> 0, receiveVersion |-> 2,
               sendLibrary |-> AddressZero, receiveLibraryAddress |-> "0xLibV2" ]
        ELSE [ sendVersion |-> 1, receiveVersion |-> 0,
               sendLibrary |-> "0xLibV1", receiveLibraryAddress |-> AddressZero ]]

MeshDefaults ==
    [n \in NetworkNames |->
        [ defaultSendLibrary |-> "0xLibV2",
          defaultSendVersion |-> 2,
          defaultReceiveLibraryAddress |-> "0xLibV1",
          defaultReceiveVersion |-> 1 ]]

\* eth overrides the relayer and the outbound confirmations of its path to
\* bsc; every other path is left unset.
MeshApp ==
    [l \in NetworkNames |->
        [r \in NetworkNames |->
            IF l = "eth" /\ r = "bsc"
            THEN [UnsetAppConfig EXCEPT !.relayer = "0xAppRelayer",
                                        !.outboundBlockConfirmations = 15]
            ELSE UnsetAppConfig]]

\* What one connectivity probe can do: revert, or return a byte sequence.
ProbeResults ==
    {[reverts |-> TRUE, bytes |-> <<>>]}
        \cup {[reverts |-> FALSE, bytes |-> Bytes(k)] : k \in 0..MaxBytes}

NotConnected == [reverts |-> FALSE, bytes |-> <<>>]

IsConnectedBytes == [reverts |-> FALSE, bytes |-> Bytes(1)]

\* A probe matrix: a contract has no trusted remote for its own chain.
ProbeMatrix(ethToBsc, bscToEth) ==
    [l \in NetworkNames |->
        [r \in NetworkNames |->
            IF l = r THEN NotConnected
            ELSE IF l = "eth" THEN ethToBsc ELSE bscToEth]]

\* eth trusts bsc, bsc does not trust eth.
OneWay == ProbeMatrix(IsConnectedBytes, NotConnected)

AllKnown ==
    [providers |-> NetworkNames, endpoints |-> NetworkNames,
     deployments |-> NetworkNames]

\* Hardhat configurations and artifact files with something missing.
Environments ==
    [providers : SUBSET NetworkNames, endpoints : SUBSET NetworkNames,
     deployments : {NetworkNames}]

InputEthBsc == <<Entry("eth", "0xAAA"), Entry("bsc", "0xBBB")>>

\* Other --networks arguments: another order, one network, a network given
\* twice, a network without an address.
InputLists ==
    { <<Entry("bsc", "0xBBB"), Entry("eth", "0xAAA")>>,
      <<Entry("eth", "0xAAA")>>,
      <<Entry("eth", "0xAAA"), Entry("eth", "0xCCC")>>,
      <<Entry("eth", "")>> }

\* --networks arguments that need a deployment artifact.
InputListsByName ==
    { <<Entry("eth", ""), Entry("bsc", "0xBBB")>>,
      <<Entry("bsc", "0xBBB"), Entry("eth", "")>>,
      <<Entry("eth", "")>> }

Scenario(input, nm, fn, e, p) ==
    [inputNetworks |-> input, name |-> nm, fileName |-> fn, env |-> e, probe |-> p]

\* The runs of the action that are explored.
Scenarios ==
    {Scenario(InputEthBsc, NoValue, StrCfgJson, AllKnown,
              ProbeMatrix(a, NotConnected)) : a \in ProbeResults}
    \cup {Scenario(i, "OFT", StrDirCfgJson, AllKnown, OneWay) : i \in InputLists}
    \cup {Scenario(i, "OFT", StrDirCfgJson,
                   [AllKnown EXCEPT !.deployments = {"bsc"}], OneWay) :
             i \in InputListsByName}
    \cup {Scenario(InputEthBsc, NoValue, f, AllKnown, OneWay) : f \in FileNames}
    \cup {Scenario(InputEthBsc, NoValue, StrCfgJson, e, OneWay) : e \in Environments}

Chain(ua, defaults, p, app) ==
    [ua |-> ua, defaults |-> defaults, probe |-> p, app |-> app,
     libDefault |-> LibDefaults]

NoVersions ==
    [ uaSendVersion |-> NoValue, uaReceiveVersion |-> NoValue,
      uaSendLibraryAddress |-> NoValue, uaReceiveLibraryAddress |-> NoValue,
      sendLibraryAddress |-> NoValue, sendVersion |-> NoValue,
      receiveLibraryAddress |-> NoValue, receiveVersion |-> NoValue ]

\* The state in which generateAppConfigAction is called.
InitAction ==
    /\ pc = "getContractConfigs"
    /\ networks = <<>>
    /\ configs = <<>>
    /\ cursor = 1
    /\ tpc = [n \in NetworkNames |-> "idle"]
    /\ ver = [n \in NetworkNames |-> NoVersions]
    /\ probe = [l \in NetworkNames |->
                   [r \in NetworkNames |-> [st |-> "none", attempts |-> 0]]]
    /\ fetch = [l \in NetworkNames |->
                   [r \in NetworkNames |->
                       [st |-> "none", attempts |-> 0,
                        appConfig |-> NoValue, remoteConfig |-> NoValue]]]
    /\ acc = [n \in NetworkNames |-> NoValue]
    /\ mesh = NoValue
    /\ file = NoValue
    /\ writes = 0
    /\ readIssued = FALSE
    /\ flaky = <<>>
    /\ errors = {}
    /\ unhandledRejections = "unknown"

Init ==
    /\ \E sc \in Scenarios :
          /\ inputNetworks = sc.inputNetworks
          /\ name = sc.name
          /\ fileName = sc.fileName
          /\ env = sc.env
          /\ chain = Chain(MeshUa, MeshDefaults, sc.probe, MeshApp)
    /\ InitAction

\* One network, every result of uaConfigLookup and every endpoint default.
InitVersions ==
    /\ inputNetworks = <<Entry("eth", "0xAAA")>>
    /\ name = NoValue
    /\ fileName = StrCfgJson
    /\ env = AllKnown
    /\ \E ua \in UaConfigs, d \in EndpointDefaults :
          chain = Chain([n \in NetworkNames |-> ua], [n \in NetworkNames |-> d],
                        OneWay, MeshApp)
    /\ InitAction

\* One network, every application config of its path, under either library.
InitMerge ==
    /\ inputNetworks = <<Entry("eth", "0xAAA")>>
    /\ name = NoValue
    /\ fileName = StrCfgJson
    /\ env = AllKnown
    /\ \E app \in AppConfigs, sv \in {0, 1} :
          chain = Chain([MeshUa EXCEPT !["eth"].sendVersion = sv,
                                       !["eth"].sendLibrary = "0xLibV1",
                                       !["eth"].receiveVersion = sv],
                        MeshDefaults, OneWay,
                        [l \in NetworkNames |-> [r \in NetworkNames |-> app]])
    /\ InitAction

Next ==
    \/ GetContractConfigs
    \/ CheckOutputFileName
    \/ ReduceStep
    \/ \E n \in Declared : UaConfigLookupReturns(n)
    \/ \E n \in Declared : DefaultSendLibraryReturns(n)
    \/ \E n \in Declared : DefaultSendVersionReturns(n)
    \/ \E n \in Declared : DefaultReceiveLibraryAddressReturns(n)
    \/ \E n \in Declared : DefaultReceiveVersionReturns(n)
    \/ \E n \in Declared : GetVersionsReadFails(n)
    \/ \E l \in Declared, r \in Declared : ProbeReturns(l, r)
    \/ \E l \in Declared, r \in Declared : ProbeFails(l, r)
    \/ \E l \in Declared, r \in Declared : AppConfigReturns(l, r)
    \/ \E l \in Declared, r \in Declared : DefaultAppConfigReturns(l, r)
    \/ \E l \in Declared, r \in Declared : RemoteConfigReadFails(l, r)
    \/ \E n \in Declared : AwaitAcc(n)
    \/ WriteFile

Spec == Init /\ [][Next]_vars

SpecVersions == InitVersions /\ [][Next]_vars

SpecMerge == InitMerge /\ [][Next]_vars

\* ------------------------------------------------------------------ claims

\* The run completed: the mesh was assembled and the file written.
Succeeded == pc = "done"

MeshKeys(m) == {m[i].key : i \in 1..Len(m)}

MeshEntry(m, n) == m[Lookup(m, n)].value

\* The remote chains listed under a network of the mesh.
RemoteChains(m, l) ==
    {MeshEntry(m, l).remoteConfigs[j].remoteChain :
        j \in 1..Len(MeshEntry(m, l).remoteConfigs)}

\* C1: in a successful run, a RemoteConfig for R is listed under L only if
\* isConnected(L, R) reported true, and none is listed when it reported false.
C1_OnlyConnectedRemotes ==
    Succeeded =>
        \A l \in Declared, r \in Declared :
            l # r =>
                /\ r \in RemoteChains(mesh, l) => probe[l][r].st = "true"
                /\ probe[l][r].st = "false" => r \notin RemoteChains(mesh, l)

\* C2: in a returned mesh every remoteChain is a declared network and is
\* not the network it is listed under.
C2_NoSelfLoop ==
    Succeeded =>
        \A l \in Declared :
            \A r \in RemoteChains(mesh, l) : r \in Declared /\ r # l

\* C3: when generateAppConfig completes, the mesh has exactly one entry per
\* key of the input network map and no other key.
C3_MeshKeysAreDeclared ==
    pc \in {"writeFile", "done"} =>
        /\ MeshKeys(mesh) = MeshKeys(configs)
        /\ Len(mesh) = Cardinality(MeshKeys(configs))

\* C3 witness: a run over two networks, one of whose reads was retried,
\* completed.
C3_Witness ==
    /\ Succeeded
    /\ Len(mesh) = 2
    /\ flaky # <<>>

\* What the resolution rules give for fixed on-chain values, computed from
\* the inputs alone.

ExpectedSend(n) ==
    IF chain.ua[n].sendVersion = 0
    THEN [ version |-> chain.defaults[n].defaultSendVersion,
           library |-> chain.defaults[n].defaultSendLibrary ]
    ELSE [ version |-> chain.ua[n].sendVersion,
           library |-> chain.ua[n].sendLibrary ]

ExpectedReceive(n) ==
    IF chain.ua[n].receiveVersion = 0
    THEN [ version |-> chain.defaults[n].defaultReceiveVersion,
           library |-> chain.defaults[n].defaultReceiveLibraryAddress ]
    ELSE [ version |-> chain.ua[n].receiveVersion,
           library |-> chain.ua[n].receiveLibraryAddress ]

IntField(appValue, defaultValue) ==
    IF appValue > 0 THEN appValue ELSE defaultValue

AddressField(appValue, defaultValue) ==
    IF appValue # AddressZero THEN appValue ELSE defaultValue

\* The default config the send library in use holds for a remote.
ExpectedDefault(l, r) ==
    chain.libDefault[l][ExpectedSend(l).library][getLayerZeroChainId(r)]

ExpectedRemoteConfig(l, r) ==
    LET app == chain.app[l][r]
        def == ExpectedDefault(l, r)
    IN  [ remoteChain |-> r,
          inboundProofLibraryVersion |->
              IntField(app.inboundProofLibraryVersion,
                       def.inboundProofLibraryVersion),
          inboundBlockConfirmations |->
              IntField(app.inboundBlockConfirmations,
                       def.inboundBlockConfirmations.value),
          relayer |-> AddressField(app.relayer, def.relayer),
          outboundProofType |->
              IntField(app.outboundProofType, def.outboundProofType),
          outboundBlockConfirmations |->
              IntField(app.outboundBlockConfirmations,
                       def.outboundBlockConfirmations.value),
          oracle |-> AddressField(app.oracle, def.oracle) ]

AllSet(app) ==
    /\ app.inboundProofLibraryVersion > 0
    /\ app.inboundBlockConfirmations > 0
    /\ app.relayer # AddressZero
    /\ app.outboundProofType > 0
    /\ app.outboundBlockConfirmations > 0
    /\ app.oracle # AddressZero

\* The six configuration fields of a RemoteConfig.
SixFields(rc) ==
    [ inboundProofLibraryVersion |-> rc.inboundProofLibraryVersion,
      inboundBlockConfirmations |-> rc.inboundBlockConfirmations,
      relayer |-> rc.relayer,
      outboundProofType |-> rc.outboundProofType,
      outboundBlockConfirmations |-> rc.outboundBlockConfirmations,
      oracle |-> rc.oracle ]

\* C4: getRemoteConfig takes each integer field from the application config
\* when it is greater than zero and each address field when it is not the
\* zero address, and from the send library's default otherwise, field by
\* field; all six set gives the application config, all six unset the default.
C4_FieldByFieldMerge ==
    \A l \in Declared, r \in Declared :
        fetch[l][r].st = "done" =>
            /\ fetch[l][r].remoteConfig = ExpectedRemoteConfig(l, r)
            /\ AllSet(chain.app[l][r]) =>
                   SixFields(fetch[l][r].remoteConfig) = chain.app[l][r]
            /\ chain.app[l][r] = UnsetAppConfig =>
                   SixFields(fetch[l][r].remoteConfig) =
                       [ SixFields(ExpectedDefault(l, r)) EXCEPT
                           !.inboundBlockConfirmations = @.value,
                           !.outboundBlockConfirmations = @.value ]

\* C4 witness: a merge of an application config that sets the relayer and
\* the outbound proof type and leaves the oracle and the inbound proof
\* library version unset.
C4_Witness ==
    /\ fetch["eth"]["eth"].st = "done"
    /\ chain.app["eth"]["eth"].relayer # AddressZero
    /\ chain.app["eth"]["eth"].oracle = AddressZero
    /\ chain.app["eth"]["eth"].outboundProofType > 0
    /\ chain.app["eth"]["eth"].inboundProofLibraryVersion = 0
    /\ fetch["eth"]["eth"].remoteConfig.relayer = "0xAppRelayer"
    /\ fetch["eth"]["eth"].remoteConfig.oracle # AddressZero

\* getVersions has returned to the reduce callback of the network.
VersionsReturned(n) == tpc[n] \in {"getRemoteConfigs", "awaitAcc", "resolved"}

\* C5: getVersions resolves each direction on its own: the endpoint's
\* default version and library when the application's version of that
\* direction is zero, the application's version and library otherwise.
C5_VersionResolution ==
    \A n \in Declared :
        /\ VersionsReturned(n) =>
              /\ ver[n].sendVersion = ExpectedSend(n).version
              /\ ver[n].sendLibraryAddress = ExpectedSend(n).library
              /\ ver[n].receiveVersion = ExpectedReceive(n).version
              /\ ver[n].receiveLibraryAddress = ExpectedReceive(n).library
        /\ Succeeded =>
              /\ MeshEntry(mesh, n).sendVersion = ExpectedSend(n).version
              /\ MeshEntry(mesh, n).receiveVersion = ExpectedReceive(n).version

\* C5 witness: a network that sends with the endpoint's default library and
\* receives with a library of its own, the two at different addresses.
C5_Witness ==
    /\ tpc["eth"] = "resolved"
    /\ chain.ua["eth"].sendVersion = 0
    /\ chain.ua["eth"].receiveVersion > 0
    /\ chain.ua["eth"].sendLibrary # chain.defaults["eth"].defaultSendLibrary
    /\ chain.ua["eth"].receiveVersion # chain.defaults["eth"].defaultReceiveVersion
    /\ ver["eth"].sendLibraryAddress = chain.defaults["eth"].defaultSendLibrary
    /\ ver["eth"].receiveVersion = chain.ua["eth"].receiveVersion

ResolutionSteps ==
    { "getProvider", "getEndpointAddress", "appConfig", "defaultAppConfig" }
        \cup VersionReads

\* C6: the output file is written at most once and only when every declared
\* network has resolved; once a step of a network's resolution has thrown,
\* the file is not written and the run does not complete.
C6_AllOrNothing ==
    /\ writes <= 1
    /\ writes = 0 => file = NoValue
    /\ writes = 1 =>
          /\ pc = "done"
          /\ file = mesh
          /\ \A n \in Declared : tpc[n] = "resolved" /\ Fetched(n, fetch)
    /\ (\E n \in Declared : tpc[n] = "rejected") => writes = 0
    /\ (\E e \in errors : e.step \in ResolutionSteps) =>
          writes = 0 /\ pc \notin {"writeFile", "done"}

\* C6 witness: the run ended in the error of a remote-config read of one
\* network although the other network had resolved; nothing was written.
C6_Witness ==
    /\ pc = "error"
    /\ writes = 0
    /\ \E n \in Declared : tpc[n] = "resolved"
    /\ \E e \in errors : e.step \in {"appConfig", "defaultAppConfig"}

InvalidFileNames == {StrEmpty, StrAbsCfgJson, StrCfgTxt, StrAbsTxt}

ValidFileNames == {StrCfgJson, StrDirCfgJson}

\* C7: with an output file name that is empty, does not end in ".json" or
\* starts with "/", the action fails before any on-chain read is issued and
\* writes nothing; a relative name ending in ".json" passes the check.
C7_NameCheckedBeforeReads ==
    /\ fileName \in InvalidFileNames =>
          /\ ~readIssued
          /\ writes = 0
          /\ pc \in {"getContractConfigs", "checkOutputFileName", "error"}
          /\ pc = "error" => errors # {}
    /\ fileName \in ValidFileNames =>
          /\ \A e \in errors :
                e.step \in ResolutionSteps \cup {"getDeploymentAddress"}
          /\ pc # "checkOutputFileName" =>
                (errors = {} => pc \in {"getContractConfigs", "generateAppConfig",
                                        "writeFile", "done", "crashed"})

\* C7 witness: the run asked to write "/cfg.json" has failed, with no read
\* issued.
C7_Witness ==
    /\ pc = "error"
    /\ fileName = StrAbsCfgJson
    /\ ~readIssued
    /\ errors # {}

\* C8: isConnected returns true exactly when the probe returns a non-empty
\* byte sequence; for an empty sequence and for a reverting probe it returns
\* false, and such a probe never fails the run.
C8_ProbeResult ==
    \A l \in Declared, r \in Declared :
        LET c == chain.probe[l][r]
            transport == flaky = Call(l, r, "isConnected")
        IN  /\ probe[l][r].st \in {"true", "false"} =>
                  (probe[l][r].st = "true" <=> Len(c.bytes) > 0)
            /\ (probe[l][r].st = "rejected" /\ ~transport) => ~c.reverts
            /\ (probe[l][r].st = "rejected" /\ c.reverts) => pc # "crashed"

ReadSteps == VersionReads \cup {"appConfig", "defaultAppConfig"}

\* C9: for fixed on-chain values the mesh is the same whatever the order in
\* which the reads complete: the same keys in the same order, the same
\* ChainPathConfig per key, the same sequence of RemoteConfigs.
ExpectedMesh ==
    [i \in 1..Len(networks) |->
        Entry(networks[i],
              [ name |-> name,
                sendVersion |-> ExpectedSend(networks[i]).version,
                receiveVersion |-> ExpectedReceive(networks[i]).version,
                address |-> MeshEntry(configs, networks[i]).address,
                remoteConfigs |->
                    [j \in 1..Len(networks) |->
                        ExpectedRemoteConfig(networks[i], networks[j])] ])]

C9_MeshIndependentOfOrder ==
    pc \in {"writeFile", "done"} => mesh = ExpectedMesh

\* C9 witness: a run over two networks completed in which a remote-config
\* read of the first network was retried, so that its reads completed late.
C9_Witness ==
    /\ Succeeded
    /\ Len(networks) = 2
    /\ flaky = Call(networks[1], networks[2], "defaultAppConfig")
    /\ fetch[networks[1]][networks[2]].attempts > 0

\* C10: every on-chain read is retried: a read is a fatal error of the run
\* only when all attempts of backOff have failed.
C10_ReadsFatalOnlyAfterRetries ==
    \A e \in errors : e.step \in ReadSteps => e.attempts = NumOfAttempts

ConfigSteps == {"getProvider", "getEndpointAddress", "getDeploymentAddress"}

\* C11: a configuration error of any declared network (provider lookup,
\* endpoint address, deployment address) is raised before any on-chain read:
\* in the step that raises it, no read has been issued for any network,
\* whatever the position of the failing network in the input list.
C11_ConfigErrorsBeforeReads ==
    [][\A e \in errors' \ errors : e.step \in ConfigSteps => ~readIssued]_vars

====
